---------------------------- MODULE Spec2Model ----------------------------
(***************************************************************************)
(* Lesion identity resolution (lesion_grouper.py) and lesion evolution     *)
(* analysis (data_analyzer.py).                                            *)
(*                                                                         *)
(* Representation.                                                         *)
(*   - A Python str is a sequence of Unicode code points (integers).       *)
(*   - A float size is an integer number of tenths of a centimetre; a      *)
(*     percentage is an exact rational [n, d] in lowest terms, d > 0.      *)
(*   - None / NaN / NaT is the empty tuple << >>, a present value v is the *)
(*     one-element tuple <<v>>.                                            *)
(*   - A DataFrame is the sequence of its rows, in row order.              *)
(***************************************************************************)
EXTENDS Integers, Sequences, FiniteSets, TLC

VARIABLES df, pc, lesion_names, cursor, groups, mapping, df_grouped, results, history,
          np_errstate

vars ==
  <<df, pc, lesion_names, cursor, groups, mapping, df_grouped, results, history,
    np_errstate>>

None == << >>
Some(v) == <<v>>

(***************************************************************************)
(* Generic sequence helpers.                                               *)
(***************************************************************************)
RECURSIVE SumSeq(_)
SumSeq(s) == IF s = << >> THEN 0 ELSE Head(s) + SumSeq(Tail(s))

Range(s) == {s[i] : i \in 1..Len(s)}

SetMax(S) == CHOOSE x \in S : \A y \in S : y <= x
SetMin(S) == CHOOSE x \in S : \A y \in S : x <= y

Abs(x) == IF x < 0 THEN -x ELSE x

RECURSIVE GCD(_, _)
GCD(a, b) == IF b = 0 THEN a ELSE GCD(b, a % b)

\* str.startswith at offset i (0-based): does kw occur in s at position i?
OccursAt(s, kw, i) ==
  /\ i + Len(kw) <= Len(s)
  /\ \A k \in 1..Len(kw) : s[i + k] = kw[k]

\* s[i:] for a 0-based offset i
Drop(s, i) == SubSeq(s, i + 1, Len(s))

\* lexicographic comparison of two strs (Python str <=, by code point)
RECURSIVE StrLE(_, _)
StrLE(a, b) ==
  IF a = << >> THEN TRUE
  ELSE IF b = << >> THEN FALSE
  ELSE IF Head(a) # Head(b) THEN Head(a) < Head(b)
  ELSE StrLE(Tail(a), Tail(b))

\* pandas Series.unique(): the distinct values in order of first appearance
RECURSIVE unique(_)
unique(s) ==
  IF s = << >> THEN << >>
  ELSE LET u == unique(SubSeq(s, 1, Len(s) - 1))
           x == s[Len(s)]
       IN IF x \in Range(u) THEN u ELSE Append(u, x)

(***************************************************************************)
(* Character classes and the str methods the resolver uses.                *)
(***************************************************************************)
IsSpace(c) == c = 32 \/ (9 <= c /\ c <= 13) \/ (28 <= c /\ c <= 31) \/ c = 133 \/ c = 160
IsAlnumLower(c) == (97 <= c /\ c <= 122) \/ (48 <= c /\ c <= 57)

\* str.lower() on one code point (ASCII and Latin-1 letters)
LowerChar(c) ==
  IF 65 <= c /\ c <= 90 THEN c + 32
  ELSE IF 192 <= c /\ c <= 222 /\ c # 215 THEN c + 32
  ELSE c

lower(s) == [i \in 1..Len(s) |-> LowerChar(s[i])]

\* re.sub(r'\s+', ' ', s): every maximal run of whitespace becomes one space
RECURSIVE CollapseSpaces(_)
CollapseSpaces(s) ==
  IF s = << >> THEN << >>
  ELSE IF IsSpace(Head(s))
       THEN IF Len(s) > 1 /\ IsSpace(s[2])
            THEN CollapseSpaces(Tail(s))
            ELSE <<32>> \o CollapseSpaces(Tail(s))
       ELSE <<Head(s)>> \o CollapseSpaces(Tail(s))

\* str.strip()
RECURSIVE LStrip(_)
LStrip(s) == IF s # << >> /\ IsSpace(Head(s)) THEN LStrip(Tail(s)) ELSE s

RECURSIVE RStrip(_)
RStrip(s) ==
  IF s # << >> /\ IsSpace(s[Len(s)]) THEN RStrip(SubSeq(s, 1, Len(s) - 1)) ELSE s

strip(s) == RStrip(LStrip(s))

\* str.replace(old, new): all non-overlapping occurrences, left to right
RECURSIVE replace(_, _, _)
replace(s, old, new) ==
  IF Len(s) < Len(old) THEN s
  ELSE IF OccursAt(s, old, 0) THEN new \o replace(Drop(s, Len(old)), old, new)
  ELSE <<Head(s)>> \o replace(Tail(s), old, new)

\* the lesion-type vocabulary, in the order of the regex alternation
kw_lesao_accent == <<108, 101, 115, 227, 111>>                   \* "lesão"
kw_nodulo_accent == <<110, 243, 100, 117, 108, 111>>             \* "nódulo"
kw_metastase_accent == <<109, 101, 116, 225, 115, 116, 97, 115, 101>> \* "metástase"
kw_tumor == <<116, 117, 109, 111, 114>>                          \* "tumor"
kw_massa == <<109, 97, 115, 115, 97>>                            \* "massa"
kw_lesao == <<108, 101, 115, 97, 111>>                           \* "lesao"
kw_nodulo == <<110, 111, 100, 117, 108, 111>>                    \* "nodulo"
kw_metastase == <<109, 101, 116, 97, 115, 116, 97, 115, 101>>    \* "metastase"

base_types == <<kw_lesao_accent, kw_nodulo_accent, kw_metastase_accent, kw_tumor, kw_massa>>

\* the replacements table of _normalize_lesion_name, in dict order
replacements ==
  << <<kw_lesao, kw_lesao_accent>>,
     <<kw_nodulo, kw_nodulo_accent>>,
     <<kw_metastase, kw_metastase_accent>>,
     <<kw_tumor, kw_tumor>>,
     <<kw_massa, kw_massa>> >>

RECURSIVE ApplyReplacements(_, _)
ApplyReplacements(s, k) ==
  IF k > Len(replacements) THEN s
  ELSE ApplyReplacements(replace(s, replacements[k][1], replacements[k][2]), k + 1)

normalize_lesion_name(name) ==
  ApplyReplacements(strip(CollapseSpaces(lower(name))), 1)

(***************************************************************************)
(* difflib.SequenceMatcher(None, a, b).ratio() for strings shorter than    *)
(* the 200-element autojunk limit.  Offsets are 0-based, ranges half-open. *)
(***************************************************************************)
RECURSIVE MatchLen(_, _, _, _, _, _)
MatchLen(a, b, i, j, ahi, bhi) ==
  IF i < ahi /\ j < bhi /\ a[i + 1] = b[j + 1]
  THEN 1 + MatchLen(a, b, i + 1, j + 1, ahi, bhi)
  ELSE 0

\* the longest matching block in a[alo:ahi], b[blo:bhi]; of all the longest
\* blocks the one that starts earliest in a, and of those earliest in b
find_longest_match(a, b, alo, ahi, blo, bhi) ==
  LET ml(i, j) == MatchLen(a, b, i, j, ahi, bhi)
      lens == {ml(i, j) : i \in alo..(ahi - 1), j \in blo..(bhi - 1)}
      k == IF lens = {} THEN 0 ELSE SetMax(lens)
  IN IF k = 0 THEN <<alo, blo, 0>>
     ELSE LET besti == SetMin({i \in alo..(ahi - 1) :
                                  \E j \in blo..(bhi - 1) : ml(i, j) = k})
              bestj == SetMin({j \in blo..(bhi - 1) : ml(besti, j) = k})
          IN <<besti, bestj, k>>

\* sum of the sizes of get_matching_blocks()
RECURSIVE matching_size(_, _, _, _, _, _)
matching_size(a, b, alo, ahi, blo, bhi) ==
  LET m == find_longest_match(a, b, alo, ahi, blo, bhi)
  IN IF m[3] = 0 THEN 0
     ELSE m[3] + matching_size(a, b, alo, m[1], blo, m[2])
               + matching_size(a, b, m[1] + m[3], ahi, m[2] + m[3], bhi)

\* ratio() as the exact fraction <<numerator, denominator>>
ratio(a, b) ==
  IF Len(a) + Len(b) = 0 THEN <<1, 1>>
  ELSE <<2 * matching_size(a, b, 0, Len(a), 0, Len(b)), Len(a) + Len(b)>>

\* self.similarity_threshold = 0.8, in tenths
similarity_threshold == 8

(***************************************************************************)
(* LesionGrouper                                                           *)
(***************************************************************************)
\* leftmost offset at which one of the base types occurs, or -1
FirstBaseOffset(s) ==
  LET offs == {i \in 0..Len(s) : \E k \in 1..Len(base_types) : OccursAt(s, base_types[k], i)}
  IN IF offs = {} THEN -1 ELSE SetMin(offs)

BaseAt(s, i) ==
  base_types[SetMin({k \in 1..Len(base_types) : OccursAt(s, base_types[k], i)})]

RECURSIVE SkipSpaces(_)
SkipSpaces(s) == IF s # << >> /\ IsSpace(Head(s)) THEN SkipSpaces(Tail(s)) ELSE s

RECURSIVE AlnumRun(_)
AlnumRun(s) ==
  IF s # << >> /\ IsAlnumLower(Head(s)) THEN <<Head(s)>> \o AlnumRun(Tail(s)) ELSE << >>

\* re.search(r'(lesão|nódulo|metástase|tumor|massa)\s*([a-z0-9]+)?', lesion.lower())
extract_pattern(lesion) ==
  LET s == lower(lesion)
      i == FirstBaseOffset(s)
  IN IF i >= 0
     THEN LET b == BaseAt(s, i)
          IN [base |-> b, identifier |-> AlnumRun(SkipSpaces(Drop(s, i + Len(b))))]
     ELSE [base |-> << >>, identifier |-> << >>]

roman_map(id) ==
  CASE id = <<105>> -> <<49>>                  \* 'i'   -> '1'
    [] id = <<105, 105>> -> <<50>>             \* 'ii'  -> '2'
    [] id = <<105, 105, 105>> -> <<51>>        \* 'iii' -> '3'
    [] id = <<105, 118>> -> <<52>>             \* 'iv'  -> '4'
    [] id = <<118>> -> <<53>>                  \* 'v'   -> '5'
    [] OTHER -> id

similar_identifiers(id1, id2) == roman_map(id1) = roman_map(id2)

check_pattern_similarity(lesion1, lesion2) ==
  LET pattern1 == extract_pattern(lesion1)
      pattern2 == extract_pattern(lesion2)
  IN IF /\ pattern1.base = pattern2.base
        /\ pattern1.base # << >>
        /\ pattern1.identifier # << >>
        /\ pattern2.identifier # << >>
     THEN LET id1 == lower(pattern1.identifier)
              id2 == lower(pattern2.identifier)
          IN id1 = id2 \/ similar_identifiers(id1, id2)
     ELSE FALSE

\* variant: the similarity ratio is not consulted
should_group_together_no_ratio(lesion1, lesion2) ==
  \/ normalize_lesion_name(lesion1) = normalize_lesion_name(lesion2)
  \/ check_pattern_similarity(lesion1, lesion2)

should_group_together(lesion1, lesion2) ==
  LET norm1 == normalize_lesion_name(lesion1)
      norm2 == normalize_lesion_name(lesion2)
      similarity == ratio(norm1, norm2)
  IN IF norm1 = norm2 THEN TRUE
     ELSE IF similarity[1] * 10 >= similarity_threshold * similarity[2] THEN TRUE
     ELSE check_pattern_similarity(lesion1, lesion2)

\* re.search(r'(lesão|nódulo|metástase|tumor|massa)\s+[a-z0-9]+', name.lower())
HasClearPattern(name) ==
  LET s == lower(name)
  IN \E i \in 0..Len(s) : \E k \in 1..Len(base_types) :
       /\ OccursAt(s, base_types[k], i)
       /\ LET rest == Drop(s, i + Len(base_types[k]))
          IN /\ rest # << >>
             /\ IsSpace(Head(rest))
             /\ AlnumRun(SkipSpaces(rest)) # << >>

\* variant: the last of the shortest members
ShortestLast(group) ==
  LET m == SetMin({Len(group[i]) : i \in 1..Len(group)})
  IN group[SetMax({i \in 1..Len(group) : Len(group[i]) = m})]

\* min(group, key=len): the first of the shortest members
ShortestFirst(group) ==
  LET m == SetMin({Len(group[i]) : i \in 1..Len(group)})
  IN group[SetMin({i \in 1..Len(group) : Len(group[i]) = m})]

\* variant: the normalised form of the first member is returned as the name
get_canonical_name_normalized(group) == normalize_lesion_name(group[1])

get_canonical_name(group) ==
  IF Len(group) = 1 THEN group[1]
  ELSE LET clear == {i \in 1..Len(group) : HasClearPattern(group[i])}
       IN IF clear # {} THEN group[SetMin(clear)] ELSE ShortestFirst(group)

\* variant: the last matching group wins (the scan does not stop at the first)
LastMatchingGroup(gs, lesion) ==
  LET hits == {g \in 1..Len(gs) : should_group_together(lesion, gs[g][1])}
  IN IF hits = {} THEN 0 ELSE SetMax(hits)

\* index of the first group whose first member matches lesion, or 0
FirstMatchingGroup(gs, lesion) ==
  LET hits == {g \in 1..Len(gs) : should_group_together(lesion, gs[g][1])}
  IN IF hits = {} THEN 0 ELSE SetMin(hits)

\* one iteration of "for lesion in lesion_names" (lines 33-43)
assign_lesion(gs, lesion) ==
  LET g == FirstMatchingGroup(gs, lesion)
  IN IF g > 0 THEN [gs EXCEPT ![g] = Append(@, lesion)]
     ELSE Append(gs, <<lesion>>)

\* "for group in groups: ... mapping[lesion] = canonical_name" (lines 46-49);
\* a later assignment to the same key overwrites an earlier one
build_mapping(gs) ==
  LET keys == UNION {Range(gs[g]) : g \in 1..Len(gs)}
  IN [n \in keys |->
        get_canonical_name(gs[SetMax({g \in 1..Len(gs) : n \in Range(gs[g])})])]

(***************************************************************************)
(* Exact rational arithmetic for the float computations of the analyzer.   *)
(***************************************************************************)
Rat(n, d) ==
  LET g == GCD(Abs(n), Abs(d))
      sg == IF d < 0 THEN -1 ELSE 1
  IN [n |-> (sg * n) \div g, d |-> (sg * d) \div g]

RatZero == [n |-> 0, d |-> 1]
RatInt(k) == [n |-> k, d |-> 1]
RatLT(a, b) == a.n * b.d < b.n * a.d
RatLE(a, b) == a.n * b.d <= b.n * a.d
RatAbs(a) == [n |-> Abs(a.n), d |-> a.d]
RatAdd(a, b) == Rat(a.n * b.d + b.n * a.d, a.d * b.d)

\* f"{x:.1f}": the number of tenths nearest to |x|, ties to even
RoundTenths(a) ==
  LET num == Abs(a.n) * 10
      q == num \div a.d
      r2 == 2 * (num % a.d)
  IN IF r2 > a.d THEN q + 1
     ELSE IF r2 < a.d THEN q
     ELSE IF q % 2 = 0 THEN q ELSE q + 1

\* f"{x:+.1f}" (plus = TRUE) and f"{x:.1f}" (plus = FALSE)
FormatPct(a, plus) ==
  [sign |-> IF a.n < 0 THEN "-" ELSE IF plus THEN "+" ELSE "",
   tenths |-> RoundTenths(a)]

(***************************************************************************)
(* Dates.  An exam date string 'YYYY-MM-DD' is the triple <<y, m, d>> of   *)
(* its fields; a Timestamp is its number of days since 1970-01-01.         *)
(***************************************************************************)
IsLeap(y) == (y % 4 = 0 /\ y % 100 # 0) \/ y % 400 = 0

DaysInMonth(y, m) ==
  IF m = 2 THEN (IF IsLeap(y) THEN 29 ELSE 28)
  ELSE IF m \in {4, 6, 9, 11} THEN 30 ELSE 31

LeapsBefore(y) == ((y - 1) \div 4) - ((y - 1) \div 100) + ((y - 1) \div 400)

DaysBeforeYear(y) == 365 * (y - 1970) + LeapsBefore(y) - LeapsBefore(1970)

RECURSIVE DaysBeforeMonth(_, _)
DaysBeforeMonth(y, m) ==
  IF m = 1 THEN 0 ELSE DaysBeforeMonth(y, m - 1) + DaysInMonth(y, m - 1)

IsCalendarDate(s) ==
  /\ Len(s) = 3
  /\ s[2] \in 1..12
  /\ s[3] >= 1
  /\ s[3] <= DaysInMonth(s[1], s[2])

\* pd.to_datetime on one value that parses
ToTimestamp(s) == DaysBeforeYear(s[1]) + DaysBeforeMonth(s[1], s[2]) + (s[3] - 1)

YearRange == 1970..2100

\* Timestamp.strftime('%d/%m/%Y') as <<dd, mm, yyyy>>
strftime(t) ==
  LET y == CHOOSE yy \in YearRange : DaysBeforeYear(yy) <= t /\ t < DaysBeforeYear(yy + 1)
      doy == t - DaysBeforeYear(y)
      m == CHOOSE mm \in 1..12 :
             DaysBeforeMonth(y, mm) <= doy /\ doy < DaysBeforeMonth(y, mm) + DaysInMonth(y, mm)
  IN <<doy - DaysBeforeMonth(y, m) + 1, m, y>>

(***************************************************************************)
(* DataAnalyzer                                                            *)
(***************************************************************************)
\* self.variation_threshold = 10.0
variation_threshold == 10

\* pd.to_datetime(df_clean['data_exame']) raises when a value does not parse
DateRaises(rows) ==
  \E i \in 1..Len(rows) : rows[i].data_exame # None /\ ~IsCalendarDate(rows[i].data_exame)

\* pd.to_datetime on one value: None becomes NaT
to_datetime(s) == IF s = None THEN None ELSE Some(ToTimestamp(s))

\* variant: non-positive sizes are coerced to NaN as well
to_numeric_positive(x) == IF x.numeric /\ x.value > 0 THEN Some(x.value) ELSE None

\* pd.to_numeric(errors='coerce') on one value: a non-numeric value becomes NaN
to_numeric(x) == IF x.numeric THEN Some(x.value) ELSE None

\* variant: the lesion id is not a sort key
RowLE_date_only(by, r1, r2) == r1.data_exame <= r2.data_exame

RowLE(by, r1, r2) ==
  IF by = "lesao_id,data_exame" /\ r1.lesao_id # r2.lesao_id
  THEN StrLE(r1.lesao_id, r2.lesao_id)
  ELSE r1.data_exame <= r2.data_exame

\* variant: the frame is left in input order
sort_values_skipped(rows, by) == rows

\* DataFrame.sort_values(by): rows with equal keys keep their relative order
RECURSIVE sort_values(_, _)
sort_values(rows, by) ==
  IF rows = << >> THEN << >>
  ELSE LET s == sort_values(SubSeq(rows, 1, Len(rows) - 1), by)
           x == rows[Len(rows)]
           k == Cardinality({i \in 1..Len(s) : RowLE(by, s[i], x)})
       IN SubSeq(s, 1, k) \o <<x>> \o SubSeq(s, k + 1, Len(s))

\* lines 60-69: copy, convert both columns, dropna
coerce_and_dropna(rows) ==
  LET conv == [i \in 1..Len(rows) |->
                 [lesao_id |-> rows[i].lesao_id,
                  data_exame |-> to_datetime(rows[i].data_exame),
                  tamanho_cm |-> to_numeric(rows[i].tamanho_cm),
                  tratamentos |-> rows[i].tratamentos]]
      Valid(r) == r.data_exame # None /\ r.tamanho_cm # None
      kept == SelectSeq(conv, Valid)
  IN [i \in 1..Len(kept) |->
        [lesao_id |-> kept[i].lesao_id,
         data_exame |-> kept[i].data_exame[1],
         tamanho_cm |-> kept[i].tamanho_cm[1],
         tratamentos |-> kept[i].tratamentos]]

prepare_dataframe(rows) ==
  IF DateRaises(rows) THEN [raised |-> TRUE, rows |-> << >>]
  ELSE [raised |-> FALSE, rows |-> sort_values(coerce_and_dropna(rows), "lesao_id,data_exame")]

\* df[df['lesao_id'] == lesion_id]
OfLesion(rows, lesion_id) ==
  LET Test(r) == r.lesao_id = lesion_id IN SelectSeq(rows, Test)

LesionIds(rows) == unique([i \in 1..Len(rows) |-> rows[i].lesao_id])

\* variant: the reference is the last record with a date <= the row's date
detailed_entry_not_strict(lesion_data, row) ==
  LET Earlier(r) == r.data_exame <= row.data_exame
      prev_measurements == SelectSeq(lesion_data, Earlier)
      has_prev == Len(lesion_data) > 1 /\ prev_measurements # << >>
      prev_size == prev_measurements[Len(prev_measurements)].tamanho_cm
      variation_abs == row.tamanho_cm - prev_size
  IN [lesao_id |-> row.lesao_id,
      data_exame |-> row.data_exame,
      tamanho_cm |-> row.tamanho_cm,
      variacao_absoluta |-> IF has_prev THEN Some(variation_abs) ELSE None,
      variacao_percentual |->
        IF has_prev /\ prev_size > 0 THEN Some(Rat(variation_abs * 100, prev_size)) ELSE None,
      tratamentos |-> row.tratamentos]

\* variant: the percentage is left out only for a reference size of exactly 0
detailed_entry_zero_only(lesion_data, row) ==
  LET Earlier(r) == r.data_exame < row.data_exame
      prev_measurements == SelectSeq(lesion_data, Earlier)
      has_prev == Len(lesion_data) > 1 /\ prev_measurements # << >>
      prev_size == prev_measurements[Len(prev_measurements)].tamanho_cm
      variation_abs == row.tamanho_cm - prev_size
  IN [lesao_id |-> row.lesao_id,
      data_exame |-> row.data_exame,
      tamanho_cm |-> row.tamanho_cm,
      variacao_absoluta |-> IF has_prev THEN Some(variation_abs) ELSE None,
      variacao_percentual |->
        IF has_prev /\ prev_size # 0 THEN Some(Rat(variation_abs * 100, prev_size)) ELSE None,
      tratamentos |-> row.tratamentos]

\* lines 84-105 for one row of a date-sorted lesion_data
detailed_entry(lesion_data, row) ==
  LET Earlier(r) == r.data_exame < row.data_exame
      prev_measurements == SelectSeq(lesion_data, Earlier)
      has_prev == Len(lesion_data) > 1 /\ prev_measurements # << >>
      prev_size == prev_measurements[Len(prev_measurements)].tamanho_cm
      variation_abs == row.tamanho_cm - prev_size
  IN [lesao_id |-> row.lesao_id,
      data_exame |-> row.data_exame,
      tamanho_cm |-> row.tamanho_cm,
      variacao_absoluta |-> IF has_prev THEN Some(variation_abs) ELSE None,
      variacao_percentual |->
        IF has_prev /\ prev_size > 0 THEN Some(Rat(variation_abs * 100, prev_size)) ELSE None,
      tratamentos |-> row.tratamentos]

RECURSIVE Concat(_)
Concat(ss) == IF ss = << >> THEN << >> ELSE Head(ss) \o Concat(Tail(ss))

create_detailed_timeline(rows) ==
  LET ids == LesionIds(rows)
  IN Concat([k \in 1..Len(ids) |->
       LET lesion_data == sort_values(OfLesion(rows, ids[k]), "data_exame")
       IN [i \in 1..Len(lesion_data) |-> detailed_entry(lesion_data, lesion_data[i])]])

\* the surgical keywords of _determine_lesion_status
surgical_keywords ==
  << <<99, 105, 114, 117, 114, 103, 105, 97>>,            \* 'cirurgia'
     <<114, 101, 115, 115, 101, 99, 231, 227, 111>>,      \* 'ressecção'
     <<114, 101, 109, 111, 231, 227, 111>>,               \* 'remoção'
     <<101, 120, 99, 105, 115, 227, 111>> >>              \* 'excisão'

\* keyword in t.lower()
Contains(s, kw) == \E i \in 0..Len(s) : OccursAt(s, kw, i)

\* variant: the keyword is looked for in the treatment as written
IsSurgical_case_sensitive(t) ==
  \E k \in 1..Len(surgical_keywords) : Contains(t, surgical_keywords[k])

IsSurgical(t) ==
  \E k \in 1..Len(surgical_keywords) : Contains(lower(t), surgical_keywords[k])

\* the treatments of all rows, then the surgical ones (lines 159-166)
surgical_treatments_of(lesion_data) ==
  SelectSeq(Concat([i \in 1..Len(lesion_data) |-> lesion_data[i].tratamentos]), IsSurgical)

\* variant: the stable band excludes the threshold itself (< instead of <=)
determine_lesion_status_exclusive(variation_pct, first_size, last_size, lesion_data) ==
  LET bound == Len(lesion_data) > 1
      thr == RatInt(variation_threshold)
  IN IF RatLT(RatAbs(variation_pct), thr)
     THEN [raised |-> FALSE, label |-> "Estavel", pct |-> FormatPct(variation_pct, TRUE),
           qualifier |-> FALSE]
     ELSE IF RatLT(thr, variation_pct)
     THEN [raised |-> FALSE, label |-> "Aumentou", pct |-> FormatPct(variation_pct, TRUE),
           qualifier |-> FALSE]
     ELSE IF ~bound
     THEN [raised |-> TRUE, label |-> "", pct |-> FormatPct(RatZero, FALSE),
           qualifier |-> FALSE]
     ELSE [raised |-> FALSE, label |-> "Reduziu", pct |-> FormatPct(variation_pct, FALSE),
           qualifier |-> surgical_treatments_of(lesion_data) # << >>]

\* variant: the treatments are collected only from three records on
determine_lesion_status_three_records(variation_pct, first_size, last_size, lesion_data) ==
  LET bound == Len(lesion_data) > 2
      thr == RatInt(variation_threshold)
  IN IF RatLE(RatAbs(variation_pct), thr)
     THEN [raised |-> FALSE, label |-> "Estavel", pct |-> FormatPct(variation_pct, TRUE),
           qualifier |-> FALSE]
     ELSE IF RatLT(thr, variation_pct)
     THEN [raised |-> FALSE, label |-> "Aumentou", pct |-> FormatPct(variation_pct, TRUE),
           qualifier |-> FALSE]
     ELSE IF ~bound
     THEN [raised |-> TRUE, label |-> "", pct |-> FormatPct(RatZero, FALSE),
           qualifier |-> FALSE]
     ELSE [raised |-> FALSE, label |-> "Reduziu", pct |-> FormatPct(variation_pct, FALSE),
           qualifier |-> surgical_treatments_of(lesion_data) # << >>]

\* the status string, as its parts; raised = TRUE is the UnboundLocalError of
\* reading surgical_treatments when lines 157-166 did not run
determine_lesion_status(variation_pct, first_size, last_size, lesion_data) ==
  LET bound == Len(lesion_data) > 1
      thr == RatInt(variation_threshold)
  IN IF RatLE(RatAbs(variation_pct), thr)
     THEN [raised |-> FALSE, label |-> "Estavel", pct |-> FormatPct(variation_pct, TRUE),
           qualifier |-> FALSE]
     ELSE IF RatLT(thr, variation_pct)
     THEN [raised |-> FALSE, label |-> "Aumentou", pct |-> FormatPct(variation_pct, TRUE),
           qualifier |-> FALSE]
     ELSE IF ~bound
     THEN [raised |-> TRUE, label |-> "", pct |-> FormatPct(RatZero, FALSE),
           qualifier |-> FALSE]
     ELSE [raised |-> FALSE, label |-> "Reduziu", pct |-> FormatPct(variation_pct, FALSE),
           qualifier |-> surgical_treatments_of(lesion_data) # << >>]

\* n*sum(xy) - sum(x)*sum(y): n^2 times the covariance of xs and ys
CoSum(xs, ys) ==
  Len(xs) * SumSeq([i \in 1..Len(xs) |-> xs[i] * ys[i]]) - SumSeq(xs) * SumSeq(ys)

Sign(x) == IF x > 0 THEN 1 ELSE IF x < 0 THEN -1 ELSE 0

\* np.corrcoef(date_numeric, sizes)[0, 1], line 191.  The correlation is kept
\* as its sign and its square (an exact rational); it is NaN when the dates or
\* the sizes have no variance.
corrcoef(xs, ys) ==
  LET sxy == CoSum(xs, ys)
      sxx == CoSum(xs, xs)
      syy == CoSum(ys, ys)
  IN IF sxx * syy = 0 THEN [nan |-> TRUE, sign |-> 0, sq |-> RatZero]
     ELSE [nan |-> FALSE, sign |-> Sign(sxy), sq |-> Rat(sxy * sxy, sxx * syy)]

\* variant: a NaN correlation is not replaced
nan_to_zero_skipped(c) == c

\* "... if not np.isnan(...) else 0", line 192
nan_to_zero(c) == IF c.nan THEN [nan |-> FALSE, sign |-> 0, sq |-> RatZero] ELSE c

\* variant: the direction of a correlation outside the band is its sign
trend_direction_by_sign(correlation) ==
  IF ~correlation.nan /\ RatLT(correlation.sq, Rat(9, 100)) THEN "Sem tendencia clara"
  ELSE IF correlation.sign > 0 THEN "Tendencia de crescimento"
  ELSE "Tendencia de reducao"

\* lines 204-209; 0.3 squared is 9/100, and every comparison with NaN is false
trend_direction(correlation) ==
  LET below == ~correlation.nan /\ RatLT(correlation.sq, Rat(9, 100))
      above == /\ ~correlation.nan
               /\ correlation.sign > 0
               /\ RatLT(Rat(9, 100), correlation.sq)
  IN IF below THEN "Sem tendencia clara"
     ELSE IF above THEN "Tendencia de crescimento"
     ELSE "Tendencia de reducao"

\* _calculate_trend_statistics, lines 184-218.  The slope is per day.  Dates
\* are taken relative to the first one: the correlation and the slope are
\* invariant under that shift.  The division 0/0 inside np.corrcoef is a
\* warning under numpy's default error state and a FloatingPointError, caught
\* at line 217, when the host has set the error state to 'raise'.
trend_fit(lesion_data) ==
  LET sorted == sort_values(lesion_data, "data_exame")
      date_numeric == [i \in 1..Len(sorted) |-> sorted[i].data_exame - sorted[1].data_exame]
      sizes == [i \in 1..Len(sorted) |-> sorted[i].tamanho_cm]
      c == corrcoef(date_numeric, sizes)
      correlation == nan_to_zero(c)
      numerator == CoSum(date_numeric, sizes)
      denominator == CoSum(date_numeric, date_numeric)
      slope == IF denominator # 0 THEN Rat(numerator, denominator) ELSE RatZero
  IN IF c.nan /\ np_errstate = "raise"
     THEN [trend |-> "Erro no calculo", slope |-> RatZero,
           correlation |-> [sign |-> 0, sq |-> RatZero]]
     ELSE [trend |-> trend_direction(correlation),
           slope |-> slope,
           correlation |-> [sign |-> correlation.sign, sq |-> correlation.sq]]

\* variant: no early return for fewer than two measurements
calculate_trend_statistics_no_guard(lesion_data) == trend_fit(lesion_data)

calculate_trend_statistics(lesion_data) ==
  IF Len(lesion_data) < 2
  THEN [trend |-> "Dados insuficientes", slope |-> RatZero,
        correlation |-> [sign |-> 0, sq |-> RatZero]]
  ELSE trend_fit(lesion_data)

\* variant: a lesion that starts at size 0 is reported as 100% growth
total_variation_pct_full_growth(first_size, last_size) ==
  IF first_size > 0 THEN Rat((last_size - first_size) * 100, first_size)
  ELSE RatInt(100)

\* _analyze_single_lesion, lines 124-125: the total variation in percent
total_variation_pct(first_size, last_size) ==
  IF first_size > 0 THEN Rat((last_size - first_size) * 100, first_size)
  ELSE RatZero

analyze_single_lesion(data) ==
  LET lesion_data == sort_values(data, "data_exame")
      first_measurement == lesion_data[1]
      last_measurement == lesion_data[Len(lesion_data)]
      first_size == first_measurement.tamanho_cm
      last_size == last_measurement.tamanho_cm
      variation_pct == total_variation_pct(first_size, last_size)
      status == determine_lesion_status(variation_pct, first_size, last_size, lesion_data)
      trend_stats == calculate_trend_statistics(lesion_data)
      sizes == {lesion_data[i].tamanho_cm : i \in 1..Len(lesion_data)}
  IN [raised |-> status.raised,
      Lesao |-> lesion_data[1].lesao_id,
      PrimeiraData |-> strftime(first_measurement.data_exame),
      TamanhoInicial |-> first_size,
      UltimaData |-> strftime(last_measurement.data_exame),
      TamanhoFinal |-> last_size,
      VariacaoTotal |-> variation_pct,
      StatusAtual |-> [label |-> status.label, pct |-> status.pct, qualifier |-> status.qualifier],
      NumeroDeMedicoes |-> Len(lesion_data),
      Tendencia |-> trend_stats.trend,
      MaiorTamanho |-> SetMax(sizes),
      MenorTamanho |-> SetMin(sizes)]

\* the empty dict {}
EmptyDict == [k \in {} |-> 0]

RECURSIVE RatSum(_)
RatSum(s) == IF s = << >> THEN RatZero ELSE RatAdd(Head(s), RatSum(Tail(s)))

\* variant: the last row holding the largest value
idxmax_last(values) ==
  SetMax({i \in DOMAIN values : \A j \in DOMAIN values : RatLE(values[j], values[i])})

\* Series.idxmax / idxmin: the first row holding the extreme value
idxmax(values) ==
  SetMin({i \in DOMAIN values : \A j \in DOMAIN values : RatLE(values[j], values[i])})

idxmin(values) ==
  SetMin({i \in DOMAIN values : \A j \in DOMAIN values : RatLE(values[i], values[j])})

\* variant: every lesion that is not increasing is counted as stable
stable_not_increasing(total_lesions, increasing, decreasing) ==
  total_lesions - increasing

\* _calculate_overall_statistics, line 231
stable(total_lesions, increasing, decreasing) ==
  total_lesions - increasing - decreasing

calculate_overall_statistics(summary_df) ==
  IF summary_df = << >> THEN EmptyDict
  ELSE LET total_lesions == Len(summary_df)
           v(i) == summary_df[i].VariacaoTotal
           idx == 1..Len(summary_df)
           thr == RatInt(variation_threshold)
           increasing == Cardinality({i \in idx : RatLT(thr, v(i))})
           decreasing == Cardinality({i \in idx : RatLT(v(i), RatInt(-variation_threshold))})
           total == RatSum([i \in idx |-> v(i)])
           imax == idxmax([i \in idx |-> v(i)])
           imin == idxmin([i \in idx |-> v(i)])
       IN [total_lesions |-> total_lesions,
           increasing_lesions |-> increasing,
           decreasing_lesions |-> decreasing,
           stable_lesions |-> stable(total_lesions, increasing, decreasing),
           average_variation_pct |-> Rat(total.n, total.d * total_lesions),
           max_increase_pct |-> v(imax),
           max_decrease_pct |-> v(imin),
           most_increased_lesion |-> summary_df[imax].Lesao,
           most_decreased_lesion |-> summary_df[imin].Lesao]

get_date_range(rows) ==
  IF rows = << >> THEN [start_date |-> None, end_date |-> None]
  ELSE LET dates == {rows[i].data_exame : i \in 1..Len(rows)}
       IN [start_date |-> Some(strftime(SetMin(dates))),
           end_date |-> Some(strftime(SetMax(dates)))]

\* an exception left analyze_lesion_evolution: there is no result
Raised ==
  [outcome |-> "raised", summary_table |-> << >>, detailed_data |-> << >>,
   overall_statistics |-> EmptyDict,
   analysis_metadata |-> [total_lesions |-> 0, total_measurements |-> 0,
                          date_range |-> [start_date |-> None, end_date |-> None]]]

\* variant: the empty result carries a populated aggregate with zero counts
empty_results_zero_counts ==
  [outcome |-> "returned", summary_table |-> << >>, detailed_data |-> << >>,
   overall_statistics |-> [total_lesions |-> 0, increasing_lesions |-> 0,
                           decreasing_lesions |-> 0, stable_lesions |-> 0],
   analysis_metadata |-> [total_lesions |-> 0, total_measurements |-> 0,
                          date_range |-> [start_date |-> None, end_date |-> None]]]

\* analysis_timestamp (the wall clock) is left out of the metadata
empty_results ==
  [outcome |-> "returned", summary_table |-> << >>, detailed_data |-> << >>,
   overall_statistics |-> EmptyDict,
   analysis_metadata |-> [total_lesions |-> 0, total_measurements |-> 0,
                          date_range |-> [start_date |-> None, end_date |-> None]]]

SummaryRow(r) ==
  [Lesao |-> r.Lesao, PrimeiraData |-> r.PrimeiraData, TamanhoInicial |-> r.TamanhoInicial,
   UltimaData |-> r.UltimaData, TamanhoFinal |-> r.TamanhoFinal,
   VariacaoTotal |-> r.VariacaoTotal, StatusAtual |-> r.StatusAtual,
   NumeroDeMedicoes |-> r.NumeroDeMedicoes, Tendencia |-> r.Tendencia,
   MaiorTamanho |-> r.MaiorTamanho, MenorTamanho |-> r.MenorTamanho]

analyze_lesion_evolution(rows) ==
  IF rows = << >> THEN empty_results
  ELSE LET prep == prepare_dataframe(rows)
       IN IF prep.raised THEN Raised
          ELSE LET clean == prep.rows
                   detailed_data == create_detailed_timeline(clean)
                   ids == LesionIds(clean)
                   summary_data == [k \in 1..Len(ids) |->
                                      analyze_single_lesion(OfLesion(clean, ids[k]))]
               IN IF \E k \in 1..Len(ids) : summary_data[k].raised THEN Raised
                  ELSE LET summary_df == [k \in 1..Len(ids) |-> SummaryRow(summary_data[k])]
                       IN [outcome |-> "returned",
                           summary_table |-> summary_df,
                           detailed_data |-> detailed_data,
                           overall_statistics |-> calculate_overall_statistics(summary_df),
                           analysis_metadata |->
                             [total_lesions |-> Len(summary_df),
                              total_measurements |-> Len(clean),
                              date_range |-> get_date_range(clean)]]

\* variant: the mapping is computed but not applied
apply_mapping_skipped(rows, m) == rows

\* LesionGrouper.group_similar_lesions, lines 22-26: rewrite the id column
apply_mapping(rows, m) ==
  [i \in 1..Len(rows) |->
     [rows[i] EXCEPT !.lesao_id = IF @ \in DOMAIN m THEN m[@] ELSE @]]

(***************************************************************************)
(* Inputs.  MaxRecords bounds the number of rows of the caller's frame.    *)
(***************************************************************************)
MaxRecords == 3

Lesao_A_acc == <<76, 101, 115, 227, 111, 32, 65>>          \* "Lesão A"
Lesao_A == <<76, 101, 115, 97, 111, 32, 65>>               \* "Lesao A"
lesao_a == <<108, 101, 115, 97, 111, 32, 97>>              \* "lesao a"
Lesion_A == <<76, 101, 115, 105, 111, 110, 32, 65>>        \* "Lesion A"
Nodulo_X == <<78, 111, 100, 117, 108, 111, 32, 88>>        \* "Nodulo X"
Lesao_B_acc == <<76, 101, 115, 227, 111, 32, 66>>          \* "Lesão B"
Lesao_I_acc == <<76, 101, 115, 227, 111, 32, 73>>          \* "Lesão I"
Massa_2 == <<77, 97, 115, 115, 97, 32, 50>>                \* "Massa 2"
massa_II_x == <<109, 97, 115, 115, 97, 32, 73, 73, 32, 120>> \* "massa II x"
Massa2 == <<77, 97, 115, 115, 97, 50>>                     \* "Massa2"

NamePool ==
  {Lesao_A_acc, Lesao_A, lesao_a, Lesion_A, Nodulo_X, Lesao_B_acc, Lesao_I_acc,
   Massa_2, massa_II_x, Massa2}

Jan15 == <<2024, 1, 15>>
Jan16 == <<2024, 1, 16>>
Jan17 == <<2024, 1, 17>>
Jan18 == <<2024, 1, 18>>
Jan19 == <<2024, 1, 19>>
Mar20 == <<2024, 3, 20>>
May10 == <<2024, 5, 10>>
Feb30 == <<2024, 2, 30>>        \* '2024-02-30': not a calendar date

Num(v) == [numeric |-> TRUE, value |-> v]
NotANumber == [numeric |-> FALSE, value |-> 0]   \* a size such as 'n/a'

Rec(id, date, size) ==
  [lesao_id |-> id, data_exame |-> date, tamanho_cm |-> size, tratamentos |-> << >>]

\* names only: one date, one size
NameRecords == {Rec(n, Jan15, Num(12)) : n \in NamePool}

\* the end-to-end scenario of the spec
EndToEndInput ==
  <<Rec(Lesao_A_acc, Jan15, Num(12)), Rec(Lesao_A, Mar20, Num(15)),
    Rec(Lesao_A_acc, May10, Num(18))>>

EndToEndRecords == Range(EndToEndInput)

\* one lesion, three dates, sizes around the 10% threshold
VariationRecords ==
  {Rec(Lesao_A_acc, d, Num(v)) : d \in {Jan15, Jan16, Jan17}, v \in {9, 10, 11, 15}}

\* three lesions whose sorted order differs from most input orders
OrderRecords ==
  {Rec(n, d, Num(v)) : n \in {Nodulo_X, Lesao_A_acc, Massa_2}, d \in {Jan15, Jan16},
                       v \in {10, 12}}

\* dates and sizes that do not survive coercion, and non-positive sizes
CoercionRecords ==
  {Rec(Lesao_A_acc, Jan15, Num(10)), Rec(Lesao_A_acc, Jan16, Num(10)),
   Rec(Lesao_A_acc, Jan15, Num(0)), Rec(Lesao_A_acc, Jan16, Num(0)),
   Rec(Lesao_A_acc, Jan16, Num(-5)), Rec(Lesao_A_acc, Jan15, NotANumber),
   Rec(Lesao_A_acc, Feb30, Num(10)), Rec(Lesao_A_acc, None, Num(10)),
   Rec(Nodulo_X, Jan15, NotANumber), Rec(Nodulo_X, Jan16, Num(12)),
   Rec(Lesao_A_acc, Jan17, Num(10))}

Quimioterapia == <<81, 117, 105, 109, 105, 111, 116, 101, 114, 97, 112, 105, 97>>
Cirurgia_parcial ==                                   \* "Cirurgia parcial"
  <<67, 105, 114, 117, 114, 103, 105, 97, 32, 112, 97, 114, 99, 105, 97, 108>>
RESSECCAO == <<82, 69, 83, 83, 69, 67, 199, 195, 79>>   \* "RESSECÇÃO"

RecT(id, date, size, treatments) ==
  [lesao_id |-> id, data_exame |-> date, tamanho_cm |-> size, tratamentos |-> treatments]

\* one lesion that shrinks, grows or stays, with and without surgical treatments
TreatmentRecords ==
  {RecT(Lesao_A_acc, Jan15, Num(20), << >>),
   RecT(Lesao_A_acc, Jan15, Num(20), <<Quimioterapia, RESSECCAO>>),
   RecT(Lesao_A_acc, Jan15, Num(10), << >>),
   RecT(Lesao_A_acc, Jan15, Num(10), <<Cirurgia_parcial>>),
   RecT(Lesao_A_acc, Jan16, Num(10), << >>),
   RecT(Lesao_A_acc, Jan16, Num(10), <<Quimioterapia>>),
   RecT(Lesao_A_acc, Jan16, Num(20), << >>),
   RecT(Nodulo_X, Jan16, Num(10), <<Cirurgia_parcial>>)}

\* one lesion whose sizes rise, fall, stay constant or share a date
TrendRecords ==
  {Rec(Lesao_A_acc, d, Num(v)) : d \in {Jan15, Jan16, Jan17}, v \in {10, 15}}

\* four measurements whose date/size correlation is exactly 0.3 and exactly -0.3
BoundaryFrames ==
  {<<Rec(Lesao_A_acc, Jan15, Num(1)), Rec(Lesao_A_acc, Jan16, Num(4)),
     Rec(Lesao_A_acc, Jan18, Num(5)), Rec(Lesao_A_acc, Jan19, Num(2))>>,
   <<Rec(Lesao_A_acc, Jan15, Num(2)), Rec(Lesao_A_acc, Jan16, Num(5)),
     Rec(Lesao_A_acc, Jan18, Num(4)), Rec(Lesao_A_acc, Jan19, Num(1))>>}

\* two spellings of one lesion, for calls that follow one another
RepeatRecords == {Rec(lesao_a, Jan15, Num(12)), Rec(Lesao_A_acc, Mar20, Num(15))}

\* the frames of the later calls on the same two objects
LaterFrames ==
  {<< >>, <<Rec(lesao_a, Jan15, Num(12))>>, <<Rec(Lesao_A_acc, Mar20, Num(15))>>,
   <<Rec(Lesao_A_acc, Mar20, Num(15)), Rec(lesao_a, Jan15, Num(12))>>}

\* calls made on one LesionGrouper and one DataAnalyzer
MaxCalls == 3

Frames(S) == UNION {[1..k -> S] : k \in 0..MaxRecords}

NotCalled ==
  [outcome |-> "none", summary_table |-> << >>, detailed_data |-> << >>,
   overall_statistics |-> EmptyDict,
   analysis_metadata |-> [total_lesions |-> 0, total_measurements |-> 0,
                          date_range |-> [start_date |-> None, end_date |-> None]]]

InitWith(S) ==
  /\ df \in Frames(S)
  /\ pc = "idle"
  /\ lesion_names = << >>
  /\ cursor = 1
  /\ groups = << >>
  /\ mapping = EmptyDict
  /\ df_grouped = << >>
  /\ results = NotCalled
  /\ history = << >>
  /\ np_errstate = "warn"

\* the frames of the resolver: the name pool and the end-to-end scenario
Init == InitWith(NameRecords \cup EndToEndRecords)
InitVariation == InitWith(VariationRecords)
InitOrder == InitWith(OrderRecords)
InitCoercion == InitWith(CoercionRecords)
InitRepeat == InitWith(RepeatRecords)
InitTreatment == InitWith(TreatmentRecords)

\* the trend frames, under either floating-point error state of the host
InitTrend ==
  /\ df \in Frames(TrendRecords) \cup BoundaryFrames
  /\ pc = "idle"
  /\ lesion_names = << >>
  /\ cursor = 1
  /\ groups = << >>
  /\ mapping = EmptyDict
  /\ df_grouped = << >>
  /\ results = NotCalled
  /\ history = << >>
  /\ np_errstate \in {"warn", "raise"}

(***************************************************************************)
(* Operations.                                                             *)
(***************************************************************************)
\* variant: the clusters of earlier calls are kept (groups is not emptied)
group_similar_lesions_keeps_groups ==
  /\ pc = "idle"
  /\ IF df = << >>
     THEN /\ df_grouped' = df
          /\ pc' = "grouped"
          /\ UNCHANGED <<lesion_names, cursor, groups>>
     ELSE /\ lesion_names' = LesionIds(df)
          /\ cursor' = 1
          /\ UNCHANGED groups
          /\ pc' = "clustering"
          /\ UNCHANGED df_grouped
  /\ UNCHANGED <<df, mapping, results, history, np_errstate>>

\* group_similar_lesions up to the call of _create_lesion_mapping (lines 15-19)
group_similar_lesions ==
  /\ pc = "idle"
  /\ IF df = << >>
     THEN /\ df_grouped' = df
          /\ pc' = "grouped"
          /\ UNCHANGED <<lesion_names, cursor, groups>>
     ELSE /\ lesion_names' = LesionIds(df)
          /\ cursor' = 1
          /\ groups' = << >>
          /\ pc' = "clustering"
          /\ UNCHANGED df_grouped
  /\ UNCHANGED <<df, mapping, results, history, np_errstate>>

\* one iteration of the clustering loop of _create_lesion_mapping (lines 33-43)
create_lesion_mapping_step ==
  /\ pc = "clustering"
  /\ cursor <= Len(lesion_names)
  /\ groups' = assign_lesion(groups, lesion_names[cursor])
  /\ cursor' = cursor + 1
  /\ UNCHANGED <<df, pc, lesion_names, mapping, df_grouped, results, history, np_errstate>>

\* variant: the ids are rewritten in the caller's frame (no df.copy())
create_lesion_mapping_return_in_place ==
  /\ pc = "clustering"
  /\ cursor > Len(lesion_names)
  /\ mapping' = build_mapping(groups)
  /\ df' = apply_mapping(df, mapping')
  /\ df_grouped' = df'
  /\ pc' = "grouped"
  /\ UNCHANGED <<lesion_names, cursor, groups, results, history, np_errstate>>

\* the mapping is built and applied to a copy of the frame (lines 45-51, 22-26)
create_lesion_mapping_return ==
  /\ pc = "clustering"
  /\ cursor > Len(lesion_names)
  /\ mapping' = build_mapping(groups)
  /\ df_grouped' = apply_mapping(df, mapping')
  /\ pc' = "grouped"
  /\ UNCHANGED <<df, lesion_names, cursor, groups, results, history, np_errstate>>

\* analyze_lesion_evolution(df_grouped), as app.py calls it
analyze_grouped ==
  /\ pc = "grouped"
  /\ results' = analyze_lesion_evolution(df_grouped)
  /\ pc' = "analyzed"
  /\ UNCHANGED <<df, lesion_names, cursor, groups, mapping, df_grouped, history, np_errstate>>

\* analyze_lesion_evolution(df) on a frame that was not grouped
analyze_raw ==
  /\ pc = "idle"
  /\ results' = analyze_lesion_evolution(df)
  /\ pc' = "analyzed_raw"
  /\ UNCHANGED <<df, lesion_names, cursor, groups, mapping, df_grouped, history, np_errstate>>

Next ==
  \/ group_similar_lesions
  \/ create_lesion_mapping_step
  \/ create_lesion_mapping_return
  \/ analyze_grouped
  \/ analyze_raw

\* the caller keeps the two objects and calls them again on another frame; the
\* finished call is recorded with what it was given and what it returned.  The
\* locals of the finished call are left as they are: a later call has to set
\* them before it reads them.
CallRecord ==
  [kind |-> pc, input |-> df, mapping |-> mapping, grouped |-> df_grouped,
   results |-> results]

next_call ==
  /\ pc \in {"analyzed", "analyzed_raw"}
  /\ Len(history) + 1 < MaxCalls
  /\ \E frame \in LaterFrames : df' = frame
  /\ history' = Append(history, CallRecord)
  /\ pc' = "idle"
  /\ UNCHANGED <<lesion_names, cursor, groups, mapping, df_grouped, results, np_errstate>>

NextRepeat ==
  \/ Next
  \/ next_call

Spec == Init /\ [][Next]_vars
SpecRepeat == InitRepeat /\ [][NextRepeat]_vars
SpecTrend == InitTrend /\ [][Next]_vars
SpecTreatment == InitTreatment /\ [][Next]_vars
SpecVariation == InitVariation /\ [][Next]_vars
SpecOrder == InitOrder /\ [][Next]_vars
SpecCoercion == InitCoercion /\ [][Next]_vars

\* the frame the finished analysis was called on
Analyzed == pc \in {"analyzed", "analyzed_raw"}
AnalyzedInput == IF pc = "analyzed_raw" THEN df ELSE df_grouped
Returned == Analyzed /\ results.outcome = "returned"

(***************************************************************************)
(* Properties.                                                             *)
(***************************************************************************)
\* an input record that survives coercion: numeric size, a date that parses
ValidInput(r) ==
  r.tamanho_cm.numeric /\ r.data_exame # None /\ IsCalendarDate(r.data_exame)

\* 'YYYY-MM-DD' order on the fields of two date strings
DateBefore(a, b) ==
  \/ a[1] < b[1]
  \/ a[1] = b[1] /\ a[2] < b[2]
  \/ a[1] = b[1] /\ a[2] = b[2] /\ a[3] < b[3]

ValidIndices == {i \in 1..Len(AnalyzedInput) : ValidInput(AnalyzedInput[i])}

\* the input holds two records of one lesion with the later date first
InputOutOfDateOrder ==
  \E i, j \in ValidIndices :
    /\ i < j
    /\ AnalyzedInput[i].lesao_id = AnalyzedInput[j].lesao_id
    /\ DateBefore(AnalyzedInput[j].data_exame, AnalyzedInput[i].data_exame)

Clustered == pc \in {"grouped", "analyzed"} /\ df # << >>

SameCluster(a, b) ==
  \E g \in 1..Len(groups) : a \in Range(groups[g]) /\ b \in Range(groups[g])

\* C1: once the mapping of a list of distinct raw ids is built, its keys are
\* exactly the input ids, every id lies in exactly one cluster, the canonical
\* id of an id is a member of the id's cluster, and two ids have the same
\* canonical id if and only if they are in the same cluster.
C1_MappingPartition ==
  Clustered =>
    /\ DOMAIN mapping = Range(lesion_names)
    /\ \A n \in Range(lesion_names) :
         /\ Cardinality({g \in 1..Len(groups) : n \in Range(groups[g])}) = 1
         /\ \A g \in 1..Len(groups) :
              n \in Range(groups[g]) =>
                /\ Cardinality({k \in 1..Len(groups[g]) : groups[g][k] = n}) = 1
                /\ mapping[n] \in Range(groups[g])
    /\ \A a, b \in Range(lesion_names) : (mapping[a] = mapping[b]) <=> SameCluster(a, b)

C1_Witness ==
  /\ pc = "grouped"
  /\ Len(groups) >= 2
  /\ \E g \in 1..Len(groups) : Len(groups[g]) >= 2

PositionOf(n) == CHOOSE i \in 1..Len(lesion_names) : lesion_names[i] = n

\* C2: after every step of the clustering loop the clusters hold exactly the
\* ids processed so far, in input order; every non-first member of a cluster
\* matches the cluster's first member and fails should_group against the first
\* member of every earlier cluster; every first member fails should_group
\* against the first members of all earlier clusters.
C2_GreedyFirstMatch ==
  (pc \in {"clustering", "grouped", "analyzed"} /\ df # << >>) =>
    /\ UNION {Range(groups[g]) : g \in 1..Len(groups)}
         = {lesion_names[i] : i \in 1..(cursor - 1)}
    /\ \A g \in 1..Len(groups) :
         /\ Len(groups[g]) >= 1
         /\ \A k \in 2..Len(groups[g]) :
              /\ should_group_together(groups[g][k], groups[g][1])
              /\ PositionOf(groups[g][k - 1]) < PositionOf(groups[g][k])
              /\ \A h \in 1..(g - 1) : ~should_group_together(groups[g][k], groups[h][1])
         /\ \A h \in 1..(g - 1) :
              /\ ~should_group_together(groups[g][1], groups[h][1])
              /\ PositionOf(groups[h][1]) < PositionOf(groups[g][1])

C2_Witness ==
  /\ pc = "clustering"
  /\ cursor > Len(lesion_names)
  /\ \E g \in 2..Len(groups) : Len(groups[g]) >= 2

\* C3: the three records ("Lesão A", 2024-01-15, 1.2), ("Lesao A", 2024-03-20,
\* 1.5), ("Lesão A", 2024-05-10, 1.8), grouped and then analysed, give exactly
\* one summary row: 1.2 on 15/01, 1.8 on 10/05, variation +50.0%, status
\* "Aumentou +50.0%", trend "Tendência de crescimento".
C3_EndToEnd ==
  (df = EndToEndInput /\ pc = "analyzed") =>
    /\ results.outcome = "returned"
    /\ Len(results.summary_table) = 1
    /\ LET r == results.summary_table[1]
       IN /\ r.TamanhoInicial = 12
          /\ r.PrimeiraData = <<15, 1, 2024>>
          /\ r.TamanhoFinal = 18
          /\ r.UltimaData = <<10, 5, 2024>>
          /\ r.VariacaoTotal = [n |-> 50, d |-> 1]
          /\ r.StatusAtual = [label |-> "Aumentou", pct |-> [sign |-> "+", tenths |-> 500],
                              qualifier |-> FALSE]
          /\ r.Tendencia = "Tendencia de crescimento"

C3_Witness ==
  /\ df = EndToEndInput
  /\ pc = "analyzed"
  /\ results.outcome = "returned"
  /\ Len(groups) = 1
  /\ Len(groups[1]) = 2

\* the valid input records of one lesion, and those of its extreme dates
RecordsOf(lesion) == {i \in ValidIndices : AnalyzedInput[i].lesao_id = lesion}

EarliestOf(lesion) ==
  {i \in RecordsOf(lesion) :
     \A j \in RecordsOf(lesion) :
       ~DateBefore(AnalyzedInput[j].data_exame, AnalyzedInput[i].data_exame)}

LatestOf(lesion) ==
  {i \in RecordsOf(lesion) :
     \A j \in RecordsOf(lesion) :
       ~DateBefore(AnalyzedInput[i].data_exame, AnalyzedInput[j].data_exame)}

InputSize(i) == AnalyzedInput[i].tamanho_cm.value

\* C4: for every lesion whose earliest-dated record has size > 0, the total
\* variation percent of its summary row is (latest size - earliest size) /
\* earliest size * 100, whatever the order of the input records.
C4_TotalVariation ==
  Returned =>
    \A k \in 1..Len(results.summary_table) :
      LET row == results.summary_table[k]
          v == row.VariacaoTotal
      IN (\A e \in EarliestOf(row.Lesao) : InputSize(e) > 0) =>
           \E e \in EarliestOf(row.Lesao), l \in LatestOf(row.Lesao) :
             /\ row.TamanhoInicial = InputSize(e)
             /\ row.TamanhoFinal = InputSize(l)
             /\ v.d > 0
             /\ v.n * InputSize(e) = (InputSize(l) - InputSize(e)) * 100 * v.d

C4_Witness ==
  /\ Returned
  /\ InputOutOfDateOrder
  /\ \E k \in 1..Len(results.summary_table) :
       /\ results.summary_table[k].TamanhoInicial = 10
       /\ results.summary_table[k].TamanhoFinal = 15
       /\ results.summary_table[k].VariacaoTotal = [n |-> 50, d |-> 1]

\* C5: the status of a summary row is "Estável" exactly when |variation| <=
\* 10.0, "Aumentou" exactly when variation > 10.0 and "Reduziu" exactly when
\* variation < -10.0; every row has exactly one of the three.
C5_StatusThreshold ==
  Returned =>
    \A k \in 1..Len(results.summary_table) :
      LET v == results.summary_table[k].VariacaoTotal
          label == results.summary_table[k].StatusAtual.label
      IN /\ v.d > 0
         /\ label \in {"Estavel", "Aumentou", "Reduziu"}
         /\ (label = "Estavel") <=> (Abs(v.n) <= 10 * v.d)
         /\ (label = "Aumentou") <=> (v.n > 10 * v.d)
         /\ (label = "Reduziu") <=> (v.n < -10 * v.d)

C5_Witness ==
  /\ Returned
  /\ \E k \in 1..Len(results.summary_table) :
       /\ results.summary_table[k].VariacaoTotal = [n |-> 10, d |-> 1]
       /\ results.summary_table[k].StatusAtual.label = "Estavel"

\* the same boundary on the negative side
C5_NegativeBoundary ==
  /\ Returned
  /\ \E k \in 1..Len(results.summary_table) :
       /\ results.summary_table[k].VariacaoTotal = [n |-> -10, d |-> 1]
       /\ results.summary_table[k].StatusAtual.label = "Estavel"

SummaryIds == [k \in 1..Len(results.summary_table) |-> results.summary_table[k].Lesao]

ValidInputIds ==
  LET Valid(r) == ValidInput(r)
      rows == SelectSeq(AnalyzedInput, Valid)
  IN [i \in 1..Len(rows) |-> rows[i].lesao_id]

\* C7 as stated: the summary rows are in the order in which their lesion ids
\* first appear among the input records.
C7_FirstAppearanceOrder ==
  Returned => SummaryIds = unique(ValidInputIds)

\* C7: the summary has one row per distinct lesion id of the valid input
\* records, and the rows are in strictly ascending order of lesion id (str
\* order by code point), whatever the order of the input records.
C7_AscendingIdOrder ==
  Returned =>
    /\ Range(SummaryIds) = Range(ValidInputIds)
    /\ \A k \in 1..(Len(SummaryIds) - 1) :
         SummaryIds[k] # SummaryIds[k + 1] /\ StrLE(SummaryIds[k], SummaryIds[k + 1])

C7_Witness ==
  /\ Returned
  /\ Len(SummaryIds) >= 2
  /\ SummaryIds # unique(ValidInputIds)

Unparsable(r) == r.data_exame # None /\ ~IsCalendarDate(r.data_exame)

WithoutRejected(rows) ==
  LET Keep(r) == ~Unparsable(r) /\ r.tamanho_cm.numeric IN SelectSeq(rows, Keep)

\* C8 as stated: when a record has an unparsable date or a non-numeric size
\* the call raises no error and its result is the result of the same call
\* without such records.
C8_InvalidRecordsDropped ==
  (Analyzed /\ \E i \in 1..Len(AnalyzedInput) :
                 Unparsable(AnalyzedInput[i]) \/ ~AnalyzedInput[i].tamanho_cm.numeric) =>
    /\ results.outcome = "returned"
    /\ results = analyze_lesion_evolution(WithoutRejected(AnalyzedInput))

\* the part of C8 about sizes: without an unparsable date in the frame, records
\* with a non-numeric size are dropped and the others analysed as if alone
C8_NonNumericSizeDropped ==
  (Analyzed /\ \A i \in 1..Len(AnalyzedInput) : ~Unparsable(AnalyzedInput[i])) =>
    /\ results.outcome = "returned"
    /\ results = analyze_lesion_evolution(WithoutRejected(AnalyzedInput))

\* C9 as stated: every size in the summary and detailed tables is > 0.
C9_SizesPositive ==
  Returned =>
    /\ \A i \in 1..Len(results.detailed_data) : results.detailed_data[i].tamanho_cm > 0
    /\ \A k \in 1..Len(results.summary_table) :
         /\ results.summary_table[k].TamanhoInicial > 0
         /\ results.summary_table[k].TamanhoFinal > 0
         /\ results.summary_table[k].MenorTamanho > 0
         /\ results.summary_table[k].MaiorTamanho > 0

\* C9: a record with a numeric size is kept whatever the sign of the size:
\* the detailed table has one row per input record with a numeric size and a
\* date, zero and negative sizes included, and each summary row counts all of
\* them and reports their smallest and largest size.
C9_NonPositiveSizesKept ==
  Returned =>
    LET dd == results.detailed_data
    IN /\ Len(dd) = Cardinality(ValidIndices)
       /\ \A i \in ValidIndices :
            Cardinality({j \in 1..Len(dd) :
                           /\ dd[j].lesao_id = AnalyzedInput[i].lesao_id
                           /\ dd[j].tamanho_cm = InputSize(i)})
              = Cardinality({j \in ValidIndices :
                               /\ AnalyzedInput[j].lesao_id = AnalyzedInput[i].lesao_id
                               /\ InputSize(j) = InputSize(i)})
       /\ \A k \in 1..Len(results.summary_table) :
            LET row == results.summary_table[k]
                sizes == {InputSize(i) : i \in RecordsOf(row.Lesao)}
            IN /\ row.NumeroDeMedicoes = Cardinality(RecordsOf(row.Lesao))
               /\ row.MenorTamanho = SetMin(sizes)
               /\ row.MaiorTamanho = SetMax(sizes)

C9_Witness ==
  /\ Returned
  /\ \E i \in 1..Len(results.detailed_data) : results.detailed_data[i].tamanho_cm < 0
  /\ \E i \in 1..Len(results.detailed_data) : results.detailed_data[i].tamanho_cm = 0
  /\ \E k \in 1..Len(results.summary_table) : results.summary_table[k].MenorTamanho < 0

NullDateRange == [start_date |-> None, end_date |-> None]

\* C10 as stated: on an empty record set the call returns empty tables, an
\* aggregate whose increasing, decreasing and stable counts are all zero, and a
\* null date range.
C10_EmptyZeroCounts ==
  (Analyzed /\ AnalyzedInput = << >>) =>
    /\ results.outcome = "returned"
    /\ results.summary_table = << >>
    /\ results.detailed_data = << >>
    /\ {"increasing_lesions", "decreasing_lesions", "stable_lesions"}
         \subseteq DOMAIN results.overall_statistics
    /\ results.overall_statistics.increasing_lesions = 0
    /\ results.overall_statistics.decreasing_lesions = 0
    /\ results.overall_statistics.stable_lesions = 0
    /\ results.analysis_metadata.date_range = NullDateRange

\* C10: on an empty record set the call raises no error and returns empty
\* summary and detailed tables, an aggregate with no entries at all, zero
\* lesion and measurement totals, and a null date range.
C10_EmptyResults ==
  (Analyzed /\ AnalyzedInput = << >>) =>
    /\ results.outcome = "returned"
    /\ results.summary_table = << >>
    /\ results.detailed_data = << >>
    /\ DOMAIN results.overall_statistics = {}
    /\ results.analysis_metadata.total_lesions = 0
    /\ results.analysis_metadata.total_measurements = 0
    /\ results.analysis_metadata.date_range = NullDateRange

C10_Witness ==
  /\ Analyzed
  /\ df = << >>
  /\ AnalyzedInput = << >>
  /\ results.outcome = "returned"

\* every record of the analysed frame fails coercion: a size that is not a
\* number, a missing date or a date that does not parse
AllRemovedByCoercion ==
  /\ AnalyzedInput # << >>
  /\ \A i \in 1..Len(AnalyzedInput) : ~ValidInput(AnalyzedInput[i])

\* C11: when the input is not empty but coercion removes every record,
\* analyze_lesion_evolution raises no error and returns the result of the
\* empty input: empty summary and detailed tables, the same aggregate, zero
\* lesion and measurement totals and a null date range.
C11_AllRemovedSameAsEmpty ==
  (Analyzed /\ AllRemovedByCoercion) => results = empty_results

\* the part of C11 that holds: records removed for a size that is not a number
\* or for a missing date leave the result of the empty input
C11_AllDroppedSameAsEmpty ==
  (Analyzed /\ AllRemovedByCoercion
     /\ \A i \in 1..Len(AnalyzedInput) : ~Unparsable(AnalyzedInput[i])) =>
    results = empty_results

C11_DroppedReached ==
  /\ Analyzed /\ AllRemovedByCoercion
  /\ Len(AnalyzedInput) >= 2
  /\ \E i \in 1..Len(AnalyzedInput) : AnalyzedInput[i].data_exame = None
  /\ \E i \in 1..Len(AnalyzedInput) : ~AnalyzedInput[i].tamanho_cm.numeric
  /\ results = empty_results

\* C12: a lesion whose earliest-dated record has size 0 gets a total variation
\* of exactly 0 percent, whatever its later sizes, and the status "Estável";
\* the call returns a result for it.
C12_ZeroBaseline ==
  (Analyzed /\ \A i \in 1..Len(AnalyzedInput) : ~Unparsable(AnalyzedInput[i])) =>
    /\ results.outcome = "returned"
    /\ \A k \in 1..Len(results.summary_table) :
         LET row == results.summary_table[k]
         IN (\A e \in EarliestOf(row.Lesao) : InputSize(e) = 0) =>
              /\ row.TamanhoInicial = 0
              /\ row.VariacaoTotal = RatZero
              /\ row.StatusAtual.label = "Estavel"
              /\ row.StatusAtual.pct = [sign |-> "+", tenths |-> 0]

\* a lesion that starts at 0 and ends at 1.0 cm, the later record given first
C12_Witness ==
  /\ Returned
  /\ InputOutOfDateOrder
  /\ \E k \in 1..Len(results.summary_table) :
       LET row == results.summary_table[k]
       IN /\ \A e \in EarliestOf(row.Lesao) : InputSize(e) = 0
          /\ row.TamanhoInicial = 0
          /\ row.TamanhoFinal = 10

\* the prepared records of one lesion, as _analyze_single_lesion receives them
PreparedOf(lesion) == OfLesion(prepare_dataframe(AnalyzedInput).rows, lesion)

\* C13: a lesion with exactly one measurement has the trend "Dados
\* insuficientes" in its summary row, and its trend statistics carry slope 0
\* and correlation 0 (the early return: nothing is computed from the record).
C13_SingleMeasurementTrend ==
  Returned =>
    \A k \in 1..Len(results.summary_table) :
      LET row == results.summary_table[k]
          stats == calculate_trend_statistics(PreparedOf(row.Lesao))
      IN Cardinality(RecordsOf(row.Lesao)) = 1 =>
           /\ row.NumeroDeMedicoes = 1
           /\ row.Tendencia = "Dados insuficientes"
           /\ stats = [trend |-> "Dados insuficientes", slope |-> RatZero,
                       correlation |-> [sign |-> 0, sq |-> RatZero]]

\* one lesion with a single measurement next to a lesion with two
C13_Witness ==
  /\ Returned
  /\ \E k \in 1..Len(results.summary_table) :
       /\ Cardinality(RecordsOf(results.summary_table[k].Lesao)) = 1
       /\ results.summary_table[k].Tendencia = "Dados insuficientes"
  /\ \E k \in 1..Len(results.summary_table) :
       /\ Cardinality(RecordsOf(results.summary_table[k].Lesao)) = 2
       /\ results.summary_table[k].Tendencia # "Dados insuficientes"

Variations == [k \in 1..Len(results.summary_table) |-> results.summary_table[k].VariacaoTotal]

FirstLargest ==
  CHOOSE k \in DOMAIN Variations :
    /\ \A j \in DOMAIN Variations : RatLE(Variations[j], Variations[k])
    /\ \A j \in 1..(k - 1) : RatLT(Variations[j], Variations[k])

FirstSmallest ==
  CHOOSE k \in DOMAIN Variations :
    /\ \A j \in DOMAIN Variations : RatLE(Variations[k], Variations[j])
    /\ \A j \in 1..(k - 1) : RatLT(Variations[k], Variations[j])

\* C15: most_increased_lesion names a lesion whose total variation is the
\* maximum over the summary rows and most_decreased_lesion one whose variation
\* is the minimum; when several rows tie, the first in summary order is named.
C15_MostChangedLesions ==
  (Returned /\ results.summary_table # << >>) =>
    LET agg == results.overall_statistics
    IN /\ agg.most_increased_lesion = results.summary_table[FirstLargest].Lesao
       /\ agg.max_increase_pct = Variations[FirstLargest]
       /\ agg.most_decreased_lesion = results.summary_table[FirstSmallest].Lesao
       /\ agg.max_decrease_pct = Variations[FirstSmallest]

\* two rows tie for the maximum, and the first of them is named
C15_Witness ==
  /\ Returned
  /\ Len(results.summary_table) >= 2
  /\ \E j, k \in DOMAIN Variations :
       /\ j < k
       /\ Variations[j] = Variations[k]
       /\ \A i \in DOMAIN Variations : RatLE(Variations[i], Variations[j])
       /\ results.overall_statistics.most_increased_lesion = results.summary_table[j].Lesao
       /\ results.overall_statistics.most_increased_lesion # results.summary_table[k].Lesao

OrderSensitivityIds == <<Lesion_A, Nodulo_X, lesao_a>>

\* the members of the cluster of "Lesion A"
ClusterOfLesionA ==
  LET g == CHOOSE h \in 1..Len(groups) : Lesion_A \in Range(groups[h]) IN groups[g]

\* C16 as stated: for the ids ["Lesion A", "Nodulo X", "lesao a"] the resolver
\* produces exactly 2 clusters, "lesao a" has the canonical id of "Lesion A",
\* and that canonical name is the member the base-type-plus-identifier pattern
\* rule prefers (a member that matches the pattern).
C16_PatternPreferredCanonical ==
  (Clustered /\ lesion_names = OrderSensitivityIds) =>
    /\ Len(groups) = 2
    /\ mapping[lesao_a] = mapping[Lesion_A]
    /\ \E k \in 1..Len(ClusterOfLesionA) :
         /\ HasClearPattern(ClusterOfLesionA[k])
         /\ \A j \in 1..(k - 1) : ~HasClearPattern(ClusterOfLesionA[j])
         /\ mapping[Lesion_A] = ClusterOfLesionA[k]

\* C16 amended: for the ids ["Lesion A", "Nodulo X", "lesao a"] the resolver
\* produces exactly 2 clusters, <<"Lesion A", "lesao a">> and <<"Nodulo X">>;
\* neither "Lesion A" nor "lesao a" matches the pattern, by either regular
\* expression of the resolver, and the canonical name of their cluster is
\* "lesao a", its shortest member.
C16_ShortestMemberCanonical ==
  (Clustered /\ lesion_names = OrderSensitivityIds) =>
    /\ groups = <<<<Lesion_A, lesao_a>>, <<Nodulo_X>>>>
    /\ \A k \in 1..Len(ClusterOfLesionA) :
         /\ ~HasClearPattern(ClusterOfLesionA[k])
         /\ extract_pattern(ClusterOfLesionA[k]).base = << >>
    /\ mapping[Lesion_A] = lesao_a
    /\ mapping[lesao_a] = lesao_a
    /\ mapping[Nodulo_X] = Nodulo_X
    /\ Len(lesao_a) < Len(Lesion_A)

C16_Witness ==
  /\ pc = "grouped"
  /\ lesion_names = OrderSensitivityIds
  /\ mapping[Lesion_A] = lesao_a

\* C17: when the raw ids are pairwise distinct and no two of them satisfy
\* should_group, the mapping sends every id to itself.
C17_IdentityOnDissimilarIds ==
  (Clustered /\ \A i, j \in 1..Len(lesion_names) :
                  i # j => /\ lesion_names[i] # lesion_names[j]
                           /\ ~should_group_together(lesion_names[i], lesion_names[j])) =>
    /\ DOMAIN mapping = Range(lesion_names)
    /\ \A n \in Range(lesion_names) : mapping[n] = n
    /\ df_grouped = df

\* three dissimilar ids, one of which is not in normal form
C17_Witness ==
  /\ pc = "grouped"
  /\ Len(lesion_names) = 3
  /\ \A i, j \in 1..Len(lesion_names) :
       i # j => ~should_group_together(lesion_names[i], lesion_names[j])
  /\ \E n \in Range(lesion_names) : normalize_lesion_name(n) # n
  /\ \A n \in Range(lesion_names) : mapping[n] = n

\* a lower-cased name holds a base type, then white space, then a letter or
\* digit: the base type and the identifier are separate tokens
MatchesBaseTypeIdentifier(name) ==
  LET s == lower(name)
  IN \E k \in 1..Len(base_types) : \E i \in 0..Len(s) :
       /\ OccursAt(s, base_types[k], i)
       /\ \E e \in (i + Len(base_types[k]) + 2)..Len(s) :
            /\ \A p \in (i + Len(base_types[k]) + 1)..(e - 1) : IsSpace(s[p])
            /\ IsAlnumLower(s[e])

C20_SeparateTokensReached ==
  /\ pc = "grouped"
  /\ groups = <<<<Massa2, Massa_2>>>>
  /\ extract_pattern(Massa2).identifier # << >>
  /\ mapping[Massa2] = Massa_2

\* the frame group_similar_lesions returned has the rows of the caller's frame,
\* in the same order, and differs from them in the lesion id at most
GroupedFrameShape ==
  pc \in {"grouped", "analyzed"} =>
    /\ Len(df_grouped) = Len(df)
    /\ \A i \in 1..Len(df) : [df_grouped[i] EXCEPT !.lesao_id = df[i].lesao_id] = df[i]

\* C19: no step of group_similar_lesions or of analyze_lesion_evolution changes
\* the caller's frame (its records, their order, their ids, dates and sizes),
\* and the frame group_similar_lesions returns has the same number of records,
\* which differ from the caller's in the lesion id at most.
C19_CallerFrameUnchanged == [][df' = df]_vars /\ []GroupedFrameShape

\* a returned frame with a rewritten id, next to the caller's untouched frame
C19_Witness ==
  /\ pc = "analyzed"
  /\ Len(df) >= 2
  /\ \E i \in 1..Len(df) : df_grouped[i].lesao_id # df[i].lesao_id
  /\ results.outcome = "returned"

\* the calls completed so far on the two objects, the latest last
CompletedCalls == IF Analyzed THEN Append(history, CallRecord) ELSE history

\* C18: the resolver and the analyzer keep no state between calls: two calls
\* on the same records, whatever was called in between, return the same
\* summary table, detailed table, aggregate and metadata, the same grouped
\* frame and, when there are records, the same mapping.
C18_NoStateBetweenCalls ==
  \A a, b \in 1..Len(CompletedCalls) :
    LET x == CompletedCalls[a]
        y == CompletedCalls[b]
    IN (x.kind = y.kind /\ x.input = y.input) =>
         /\ x.results = y.results
         /\ x.kind = "analyzed" =>
              /\ x.grouped = y.grouped
              /\ x.input # << >> => x.mapping = y.mapping

\* the first and the third call are on the same frame, the second on another
\* one whose id clusters with an id of that frame; the mapping rewrites an id
C18_Witness ==
  /\ pc = "analyzed"
  /\ Len(history) = 2
  /\ history[1].kind = "analyzed" /\ history[2].kind = "analyzed"
  /\ history[1].input = df
  /\ history[2].input # df /\ history[2].input # << >>
  /\ history[2].grouped # history[2].input
  /\ results.outcome = "returned"
  /\ results.summary_table # << >>

\* the correlation of the dates and sizes of one lesion, computed from the
\* prepared records: its sign, its square, and whether it is undefined
CorrelationOf(lesion) ==
  LET rows == PreparedOf(lesion)
      xs == [i \in 1..Len(rows) |-> rows[i].data_exame - rows[1].data_exame]
      ys == [i \in 1..Len(rows) |-> rows[i].tamanho_cm]
      sxy == CoSum(xs, ys)
      vv == CoSum(xs, xs) * CoSum(ys, ys)
  IN [defined |-> vv # 0, sign |-> Sign(sxy), num |-> sxy * sxy, den |-> vv]

\* |correlation| < 0.3, = 0.3, > 0.3 as 100 * sxy^2 against 9 * sxx * syy
AbsBelow03(c) == 100 * c.num < 9 * c.den
AbsAbove03(c) == 100 * c.num > 9 * c.den

\* C21: for a lesion with at least 2 measurements whose correlation is
\* defined, the trend label is "Sem tendência clara" when |correlation| < 0.3,
\* "Tendência de crescimento" when correlation > 0.3, and "Tendência de
\* redução" in every remaining case.
C21_TrendLabel ==
  Returned =>
    \A k \in 1..Len(results.summary_table) :
      LET row == results.summary_table[k]
          c == CorrelationOf(row.Lesao)
      IN (row.NumeroDeMedicoes >= 2 /\ c.defined) =>
           row.Tendencia = IF AbsBelow03(c) THEN "Sem tendencia clara"
                           ELSE IF c.sign > 0 /\ AbsAbove03(c)
                                  THEN "Tendencia de crescimento"
                                  ELSE "Tendencia de reducao"

\* a correlation of exactly +0.3 falls in the remaining case
C21_Witness ==
  /\ Returned
  /\ Len(results.summary_table) = 1
  /\ LET c == CorrelationOf(results.summary_table[1].Lesao)
     IN c.defined /\ c.sign > 0 /\ ~AbsBelow03(c) /\ ~AbsAbove03(c)
  /\ results.summary_table[1].Tendencia = "Tendencia de reducao"

\* the three labels are reached
C21_GrowthReached ==
  Returned /\ \E k \in 1..Len(results.summary_table) :
    results.summary_table[k].Tendencia = "Tendencia de crescimento"

C21_NoClearTrendReached ==
  Returned /\ \E k \in 1..Len(results.summary_table) :
    /\ results.summary_table[k].Tendencia = "Sem tendencia clara"
    /\ CorrelationOf(results.summary_table[k].Lesao).defined

\* C28: a lesion carries the label "Tendência de redução" only when its
\* date/size correlation is negative, at most -0.3; a lesion with a positive
\* correlation never carries it.
C28_ReductionOnlyWhenNegative ==
  Returned =>
    \A k \in 1..Len(results.summary_table) :
      LET row == results.summary_table[k]
          c == CorrelationOf(row.Lesao)
      IN row.Tendencia = "Tendencia de reducao" =>
           c.defined /\ c.sign < 0 /\ ~AbsBelow03(c)

\* the part of C28 that holds: off the value +0.3 itself, the reduction label
\* goes with a correlation of at most -0.3
C28_ReductionOffBoundary ==
  Returned =>
    \A k \in 1..Len(results.summary_table) :
      LET row == results.summary_table[k]
          c == CorrelationOf(row.Lesao)
      IN (row.Tendencia = "Tendencia de reducao"
            /\ ~(c.sign > 0 /\ ~AbsBelow03(c) /\ ~AbsAbove03(c))) =>
           c.defined /\ c.sign < 0 /\ ~AbsBelow03(c)

\* a lesion of the summary whose trend computation fails numerically: at least
\* 2 measurements, and constant sizes or identical dates
TrendFails(row) ==
  row.NumeroDeMedicoes >= 2 /\ ~CorrelationOf(row.Lesao).defined

ZeroCorrelation == [sign |-> 0, sq |-> RatZero]

C22_ErrorLabelReached ==
  /\ Returned
  /\ np_errstate = "raise"
  /\ \E k \in 1..Len(results.summary_table) :
       LET row == results.summary_table[k]
       IN /\ TrendFails(row)
          /\ row.PrimeiraData = row.UltimaData
          /\ row.TamanhoInicial # row.TamanhoFinal
          /\ row.Tendencia = "Erro no calculo"

\* some treatment string on some retained record of the lesion contains a
\* surgical keyword, whatever its case
HasSurgicalTreatment(lesion) ==
  \E i \in RecordsOf(lesion) :
    \E t \in 1..Len(AnalyzedInput[i].tratamentos) :
      \E k \in 1..Len(surgical_keywords) :
        Contains(lower(AnalyzedInput[i].tratamentos[t]), surgical_keywords[k])

\* C23: the status of a lesion carries the qualifier "(possível intervenção
\* cirúrgica)" if and only if its variation is below -10.0% and some treatment
\* string on one of its records contains a surgical keyword as a
\* case-insensitive substring; "Estável" and "Aumentou" never carry it.
C23_SurgicalQualifier ==
  Returned =>
    \A k \in 1..Len(results.summary_table) :
      LET row == results.summary_table[k]
      IN /\ row.StatusAtual.qualifier <=>
              (RatLT(row.VariacaoTotal, RatInt(-10)) /\ HasSurgicalTreatment(row.Lesao))
         /\ row.StatusAtual.label \in {"Estavel", "Aumentou"} => ~row.StatusAtual.qualifier

\* a lesion that halves, the keyword in capitals on its earlier record
C23_Witness ==
  /\ Returned
  /\ \E k \in 1..Len(results.summary_table) :
       LET row == results.summary_table[k]
       IN /\ row.StatusAtual.label = "Reduziu"
          /\ row.StatusAtual.qualifier
          /\ \A i \in RecordsOf(row.Lesao) :
               \A t \in 1..Len(AnalyzedInput[i].tratamentos) :
                 AnalyzedInput[i].tratamentos[t] \in {Quimioterapia, RESSECCAO}

\* a lesion that doubles with a surgical treatment: no qualifier; a lesion that
\* halves without one: no qualifier
C23_UnqualifiedReached ==
  /\ Returned
  /\ Len(results.summary_table) = 2
  /\ \E k \in 1..Len(results.summary_table) :
       LET row == results.summary_table[k]
       IN row.StatusAtual.label = "Aumentou" /\ HasSurgicalTreatment(row.Lesao)

C23_PlainReductionReached ==
  /\ Returned
  /\ \E k \in 1..Len(results.summary_table) :
       LET row == results.summary_table[k]
       IN /\ row.StatusAtual.label = "Reduziu"
          /\ ~row.StatusAtual.qualifier
          /\ \E i \in RecordsOf(row.Lesao) : AnalyzedInput[i].tratamentos # << >>

ReferenceIndex(d) ==
  LET P == PreparedOf(d.lesao_id)
      earlier == {j \in 1..Len(P) : P[j].data_exame < d.data_exame}
  IN IF earlier = {} THEN 0 ELSE SetMax(earlier)

ReferenceSize(d) == PreparedOf(d.lesao_id)[ReferenceIndex(d)].tamanho_cm

\* C24 as stated: in the detailed timeline a row whose reference record has
\* size 0 has a null percentage variation and the size difference as absolute
\* variation; for every other reference size the percentage variation is the
\* absolute variation / reference size * 100.
C24_NullOnlyForZeroReference ==
  Returned =>
    \A k \in 1..Len(results.detailed_data) :
      LET d == results.detailed_data[k]
      IN ReferenceIndex(d) > 0 =>
           /\ d.variacao_absoluta = Some(d.tamanho_cm - ReferenceSize(d))
           /\ ReferenceSize(d) = 0 => d.variacao_percentual = None
           /\ ReferenceSize(d) # 0 =>
                \E v \in Range(d.variacao_percentual) :
                  /\ v.d > 0
                  /\ v.n * ReferenceSize(d) = (d.tamanho_cm - ReferenceSize(d)) * 100 * v.d

\* C24 amended: a row whose reference record has a size that is not positive
\* (0 or negative) has a null percentage variation and the size difference as
\* absolute variation; for a positive reference size the percentage variation
\* is the absolute variation / reference size * 100.
C24_NullForNonPositiveReference ==
  Returned =>
    \A k \in 1..Len(results.detailed_data) :
      LET d == results.detailed_data[k]
      IN ReferenceIndex(d) > 0 =>
           /\ d.variacao_absoluta = Some(d.tamanho_cm - ReferenceSize(d))
           /\ ReferenceSize(d) <= 0 => d.variacao_percentual = None
           /\ ReferenceSize(d) > 0 =>
                \E v \in Range(d.variacao_percentual) :
                  /\ v.d > 0
                  /\ v.n * ReferenceSize(d) = (d.tamanho_cm - ReferenceSize(d)) * 100 * v.d

\* a row after a record of size 0 and a row after a record of negative size
C24_Witness ==
  /\ Returned
  /\ \E k \in 1..Len(results.detailed_data) :
       LET d == results.detailed_data[k]
       IN /\ ReferenceIndex(d) > 0
          /\ ReferenceSize(d) = 0
          /\ d.variacao_absoluta = Some(d.tamanho_cm)
          /\ d.tamanho_cm # 0
          /\ d.variacao_percentual = None
  /\ \E k \in 1..Len(results.detailed_data) :
       LET d == results.detailed_data[k]
       IN /\ ReferenceIndex(d) > 0
          /\ ReferenceSize(d) < 0
          /\ d.variacao_percentual = None

\* two names with the same base type and identifiers that differ, also under
\* the Roman-numeral table
SameBaseOtherIdentifier(a, b) ==
  LET pa == extract_pattern(a)
      pb == extract_pattern(b)
  IN /\ pa.base # << >> /\ pa.base = pb.base
     /\ pa.identifier # << >> /\ pb.identifier # << >>
     /\ lower(pa.identifier) # lower(pb.identifier)
     /\ ~similar_identifiers(lower(pa.identifier), lower(pb.identifier))

\* C25: two raw names with the same base type and different identifiers, not
\* equal under the Roman-numeral table (such as "Lesão A" and "Lesão B"), are
\* never mapped to the same canonical identity.
C25_DistinctIdentifiersApart ==
  Clustered =>
    \A a, b \in Range(lesion_names) :
      SameBaseOtherIdentifier(a, b) => mapping[a] # mapping[b]

\* what merges them: the pattern check tells "Lesão A" and "Lesão B" apart, the
\* similarity ratio of their normal forms, 12/14, is above the threshold
C25_RatioMergesReached ==
  /\ pc = "grouped"
  /\ lesion_names = <<Lesao_A_acc, Lesao_B_acc>>
  /\ ~check_pattern_similarity(Lesao_B_acc, Lesao_A_acc)
  /\ ratio(normalize_lesion_name(Lesao_B_acc), normalize_lesion_name(Lesao_A_acc)) = <<12, 14>>
  /\ mapping[Lesao_B_acc] = Lesao_A_acc

\* the clustering loop of _create_lesion_mapping run to its end (lines 30-43)
RECURSIVE cluster_all(_, _)
cluster_all(gs, names) ==
  IF names = << >> THEN gs ELSE cluster_all(assign_lesion(gs, Head(names)), Tail(names))

\* _create_lesion_mapping (lines 28-51)
create_lesion_mapping(names) == build_mapping(cluster_all(<< >>, names))

\* group_similar_lesions as one function of the frame (lines 13-26)
grouped_frame(rows) ==
  IF rows = << >> THEN rows
  ELSE apply_mapping(rows, create_lesion_mapping(LesionIds(rows)))

\* C26: group_similar_lesions is idempotent: applied to its own output it
\* changes no lesion id.
C26_GroupingIdempotent ==
  pc \in {"grouped", "analyzed"} => grouped_frame(df_grouped) = df_grouped

\* the function is the one the steps compute, and the second pass merges the
\* canonical names "Lesão A" and "Lesão B" of the first
C26_SecondPassMergesReached ==
  /\ pc = "grouped"
  /\ df_grouped = grouped_frame(df)
  /\ lesion_names = <<Lesion_A, Lesao_A_acc, Lesao_B_acc>>
  /\ LesionIds(df_grouped) = <<Lesao_A_acc, Lesao_B_acc>>
  /\ LesionIds(grouped_frame(df_grouped)) = <<Lesao_A_acc>>

\* the steps of the resolver compute grouped_frame
GroupedFrameIsFunction ==
  pc \in {"grouped", "analyzed"} => df_grouped = grouped_frame(df)

\* C29: measurement conservation.  In every result the number of detailed
\* rows, the sum of the measurement counts of the summary rows and
\* total_measurements all equal the number of records retained after coercion;
\* the number of summary rows and total_lesions equal the number of distinct
\* lesion ids among the retained records.
C29_MeasurementConservation ==
  Returned =>
    LET retained == Cardinality(ValidIndices)
        lesions == Cardinality({AnalyzedInput[i].lesao_id : i \in ValidIndices})
        counts == [k \in 1..Len(results.summary_table) |->
                     results.summary_table[k].NumeroDeMedicoes]
    IN /\ Len(results.detailed_data) = retained
       /\ SumSeq(counts) = retained
       /\ results.analysis_metadata.total_measurements = retained
       /\ Len(results.summary_table) = lesions
       /\ results.analysis_metadata.total_lesions = lesions
       /\ \A k \in 1..Len(results.summary_table) :
            counts[k] = Cardinality(RecordsOf(results.summary_table[k].Lesao))

\* two lesions, two retained records, one record removed by coercion
C29_Witness ==
  /\ Returned
  /\ Len(AnalyzedInput) = 3
  /\ Cardinality(ValidIndices) = 2
  /\ Len(results.summary_table) = 2
  /\ Len(results.detailed_data) = 2

\* the sum of the non-null absolute variations of the detailed rows of a lesion
SumOfDeltas(lesion) ==
  SumSeq([k \in 1..Len(results.detailed_data) |->
            LET d == results.detailed_data[k]
            IN IF d.lesao_id = lesion /\ d.variacao_absoluta # None
               THEN d.variacao_absoluta[1] ELSE 0])

DistinctDates(lesion) ==
  \A i, j \in RecordsOf(lesion) :
    i # j => AnalyzedInput[i].data_exame # AnalyzedInput[j].data_exame

\* C30: for every lesion whose records have pairwise distinct exam dates, the
\* non-null absolute variations of its detailed rows sum to the final size
\* minus the initial size of its summary row.
C30_DeltasTelescope ==
  Returned =>
    \A k \in 1..Len(results.summary_table) :
      LET row == results.summary_table[k]
      IN DistinctDates(row.Lesao) =>
           SumOfDeltas(row.Lesao) = row.TamanhoFinal - row.TamanhoInicial

\* three dates given out of order, the size going up and then down
C30_Witness ==
  /\ Returned
  /\ InputOutOfDateOrder
  /\ \E k \in 1..Len(results.summary_table) :
       LET row == results.summary_table[k]
       IN /\ DistinctDates(row.Lesao)
          /\ row.NumeroDeMedicoes = 3
          /\ row.MaiorTamanho > row.TamanhoFinal
          /\ row.MaiorTamanho > row.TamanhoInicial
          /\ row.TamanhoFinal # row.TamanhoInicial
          /\ SumOfDeltas(row.Lesao) = row.TamanhoFinal - row.TamanhoInicial

\* without distinct dates the deltas need not telescope
C30_SharedDateReached ==
  /\ Returned
  /\ \E k \in 1..Len(results.summary_table) :
       LET row == results.summary_table[k]
       IN /\ ~DistinctDates(row.Lesao)
          /\ SumOfDeltas(row.Lesao) # row.TamanhoFinal - row.TamanhoInicial

=============================================================================
